---- MODULE Spec2Model ----
(***************************************************************************)
(* StaticAssetUpdater (src/src/IgnoreAsset.ts): one run of                *)
(* tryUpdateAssets over a repository checkout.  The markup files, the     *)
(* answers of the CDN clients, the git tool and the pull-request service   *)
(* are the environment; the run itself is sequential.                      *)
(***************************************************************************)
EXTENDS Integers, Sequences, FiniteSets, TLC

(***************************************************************************)
(* Bounds of the model.                                                    *)
(***************************************************************************)
\* Most script/link elements over all the scanned files of one run.
MaxOcc == 3
\* The same where the environment may fail (Spec, SpecFrame).
MaxEnvOcc == 2
\* Most environment faults in one run: a git command that fails, a branch
\* that already exists, a rejected API call, a CDN lookup that throws.
MaxFaults == 1
\* Largest version component of the calls of generateCommitMessage (next to
\* 9 and 10).
MaxPart == 4
\* Most path segments of the URLs given to tryGetAsset.
MaxSegments == 5

(***************************************************************************)
(* Strings.  A version is the sequence of its characters, so that the     *)
(* comparisons of the code can be computed on it.                          *)
(***************************************************************************)
V1_9_0 == <<"1", ".", "9", ".", "0">>
V1_10_0 == <<"1", ".", "1", "0", ".", "0">>
V2_0_0 == <<"2", ".", "0", ".", "0">>
Versions == {V1_9_0, V1_10_0, V2_0_0}

\* `undefined`: a missing entry of a Record<string, ...>, a null result.
Undefined == <<"undefined">>

Cdns == {"cdnjs", "jsdelivr"}
Names == {"a", "b"}
FileNames == {"f.js", "g.js"}
\* Integrity hashes found in the markup, and the hash of a CDN listing.
OldHashes == {"sha-old"}
NewHash == "sha-new"
\* A null string (no integrity attribute, a listing without a hash).
Null == "<null>"

PathX == "x.html"
PathY == "y.html"
Paths == <<PathX, PathY>>

(***************************************************************************)
(* Sequence helpers.                                                       *)
(***************************************************************************)
Range(s) == {s[k] : k \in DOMAIN s}

MinOf(S) == CHOOSE m \in S : \A n \in S : m <= n

\* s.some(p) / s.find(p) work on the first index that satisfies p.
FirstIndex(s, ok(_)) ==
  LET hits == {k \in DOMAIN s : ok(s[k])}
  IN IF hits = {} THEN 0 ELSE MinOf(hits)

SelectOf(s, ok(_)) == SelectSeq(s, ok)

RECURSIVE Flatten(_)
Flatten(ss) == IF ss = <<>> THEN <<>> ELSE Head(ss) \o Flatten(Tail(ss))

(***************************************************************************)
(* Assets.                                                                 *)
(***************************************************************************)
Asset(cdn, name) == [cdn |-> cdn, name |-> name]

AssetOf(item) == Asset(item.cdn, item.name)

SameAsset(a, b) == a.cdn = b.cdn /\ a.name = b.name

getKey(asset) == <<asset.cdn, asset.name>>

getClient(provider) == IF provider \in Cdns THEN provider ELSE Undefined

\* The URL of a file of a package version on a CDN.
Url(cdn, name, version, fileName) ==
  [kind |-> "url", cdn |-> cdn, name |-> name, version |-> version,
   fileName |-> fileName]

\* Text of the markup that the DOM resolves to a URL without holding the
\* URL literally (an entity-encoded or non-normalised spelling).
Spelled(url) == [url EXCEPT !.kind = "spelled"]

Sri(hash) == [kind |-> "sri", hash |-> hash]

\* AssetVersionItem, as extractAsset builds it.
Item(cdn, name, version, fileName, integrity) ==
  [cdn |-> cdn, name |-> name, version |-> version,
   url |-> Url(cdn, name, version, fileName),
   integrity |-> integrity, fileName |-> fileName]

CdnFile(url, fileName, integrity) ==
  [url |-> url, fileName |-> fileName, integrity |-> integrity]

(***************************************************************************)
(* File text.  A file is the sequence of the attribute values of its      *)
(* script and link elements; String.includes and String.replace act on    *)
(* the first value equal to the pattern.                                   *)
(***************************************************************************)
\* A mutant of includes: the text is not looked at.
includesAlways(content, pattern) == TRUE

includes(content, pattern) == \E k \in DOMAIN content : content[k] = pattern

replace(content, pattern, replacement) ==
  LET k == FirstIndex(content, LAMBDA t : t = pattern)
  IN IF k = 0 THEN content ELSE [content EXCEPT ![k] = replacement]

\* The text of one element whose src/href the DOM resolves to item.url.
ElementText(el) ==
  <<IF el.literal THEN el.item.url ELSE Spelled(el.item.url)>>
    \o (IF el.item.integrity = Null THEN <<>> ELSE <<Sri(el.item.integrity)>>)

FileText(elements) == Flatten([k \in DOMAIN elements |-> ElementText(elements[k])])

\* findAssets: the items of the elements of one file, in extraction order.
findAssets(elements) == [k \in DOMAIN elements |-> elements[k].item]

(***************************************************************************)
(* String comparison of versions (code units, as < on JavaScript strings).*)
(***************************************************************************)
Ord(c) ==
  CASE c = "." -> 46 [] c = "0" -> 48 [] c = "1" -> 49 [] c = "2" -> 50
    [] c = "3" -> 51 [] c = "4" -> 52 [] c = "5" -> 53 [] c = "6" -> 54
    [] c = "7" -> 55 [] c = "8" -> 56 [] c = "9" -> 57

RECURSIVE StrLess(_, _)
StrLess(s, t) ==
  IF t = <<>> THEN FALSE
  ELSE IF s = <<>> THEN TRUE
  ELSE IF Ord(Head(s)) # Ord(Head(t)) THEN Ord(Head(s)) < Ord(Head(t))
  ELSE StrLess(Tail(s), Tail(t))

V0_0_0 == <<"0", ".", "0", ".", "0">>

(***************************************************************************)
(* generateCommitMessage, lines 45-75.                                    *)
(***************************************************************************)
\* String.prototype.split on a separator of one character.
RECURSIVE splitFrom(_, _, _)
splitFrom(s, separator, part) ==
  IF s = <<>> THEN <<part>>
  ELSE IF Head(s) = separator
       THEN <<part>> \o splitFrom(Tail(s), separator, <<>>)
       ELSE splitFrom(Tail(s), separator, Append(part, Head(s)))

split(s, separator) == splitFrom(s, separator, <<>>)

\* parts[i] of JavaScript (i from 0): undefined beyond the end.
At(parts, i) == IF i + 1 \in DOMAIN parts THEN parts[i + 1] ELSE Undefined

Digits == {"0", "1", "2", "3", "4", "5", "6", "7", "8", "9"}

\* Not a number: every comparison with it is false.
NaN == -1

RECURSIVE parseDigits(_, _)
parseDigits(s, n) ==
  IF s = <<>> \/ Head(s) \notin Digits THEN n
  ELSE parseDigits(Tail(s), 10 * n + (Ord(Head(s)) - Ord("0")))

\* parseInt(s, 10): the leading digits of s, NaN if it has none.
parseInt(s) ==
  IF s = <<>> \/ Head(s) \notin Digits THEN NaN ELSE parseDigits(s, 0)

\* x > y on numbers.
greater(x, y) == x # NaN /\ y # NaN /\ x > y

\* Lines 53-58.
updateKind(currentVersion, latestVersion) ==
  IF greater(parseInt(At(latestVersion, 0)), parseInt(At(currentVersion, 0)))
  THEN "major"
  ELSE IF greater(parseInt(At(latestVersion, 1)),
                  parseInt(At(currentVersion, 1)))
       THEN "minor"
       ELSE "patch"

\* The message, as the values that its lines are made of.
generateCommitMessage(assetName, currentAssetVersion, latestAssetVersion) ==
  [name |-> assetName,
   version |-> latestAssetVersion,
   updateType |-> updateKind(split(currentAssetVersion, "."),
                             split(latestAssetVersion, "."))]

(***************************************************************************)
(* tryGetAsset and extractAsset, lines 353-418.  Here a URL is its origin *)
(* and the text of its path after the first "/", a sequence of words, "/" *)
(* and "@"; a name, a version and a file name are parts of that text.     *)
(***************************************************************************)
\* Lines 35-38.
cdnMap ==
  [prefix \in {"https://cdnjs.cloudflare.com", "https://cdn.jsdelivr.net"} |->
     IF prefix = "https://cdnjs.cloudflare.com" THEN "cdnjs" ELSE "jsdelivr"]

\* Array.prototype.join.
RECURSIVE join(_, _)
join(parts, separator) ==
  IF parts = <<>> THEN <<>>
  ELSE IF Len(parts) = 1 THEN parts[1]
  ELSE parts[1] \o <<separator>> \o join(Tail(parts), separator)

\* Array.prototype.slice(start).
slice(parts, start) == SubSeq(parts, start + 1, Len(parts))

\* A mutant of hasPackage: more than one "@" is let through.
hasPackageOrMore(parts) == Len(parts) >= 2

\* Line 402.
hasPackage(parts) == Len(parts) = 2

\* Lines 373-418: the asset in a sequence, the empty sequence for null.
extractAsset(provider, url, integrity) ==
  LET segments == split(url.path, "/")
  IN IF provider = "cdnjs"
     THEN IF Len(segments) >= 4
          THEN <<[cdn |-> provider, name |-> At(segments, 2),
                  version |-> At(segments, 3), url |-> url,
                  integrity |-> integrity,
                  fileName |-> join(slice(segments, 4), "/")]>>
          ELSE <<>>
     ELSE IF provider = "jsdelivr"
     THEN IF Len(segments) >= 2
          THEN LET parts == split(At(segments, 1), "@")
               IN IF hasPackage(parts)
                  THEN <<[cdn |-> provider, name |-> At(parts, 0),
                          version |-> At(parts, 1), url |-> url,
                          integrity |-> integrity,
                          fileName |-> <<"/">> \o join(slice(segments, 2), "/")]>>
                  ELSE <<>>
          ELSE <<>>
     ELSE <<>>

\* Lines 353-371.
tryGetAsset(url, integrity) ==
  IF url.origin \in DOMAIN cdnMap
  THEN extractAsset(cdnMap[url.origin], url, integrity)
  ELSE <<>>

(***************************************************************************)
(* tryUpdateAssets, lines 88-160: the reconciliation.                     *)
(* fileAssetMap is the sequence of [file, items] in insertion order.      *)
(***************************************************************************)
AllItems(fam) == Flatten([k \in DOMAIN fam |-> fam[k].items])

\* Lines 91-101: the unique assets, in the order they are first seen.
RECURSIVE uniqueAssets(_, _)
uniqueAssets(items, acc) ==
  IF items = <<>> THEN acc
  ELSE LET a == AssetOf(Head(items))
       IN uniqueAssets(Tail(items),
            IF \E k \in DOMAIN acc : SameAsset(acc[k], a)
            THEN acc ELSE Append(acc, a))

\* Lines 106-123: the distinct versions seen of the asset with this key.
RECURSIVE versionsOf(_, _, _)
versionsOf(items, key, acc) ==
  IF items = <<>> THEN acc
  ELSE LET it == Head(items)
       IN versionsOf(Tail(items), key,
            IF getKey(it) = key /\ ~\E k \in DOMAIN acc : acc[k] = it.version
            THEN Append(acc, it.version) ELSE acc)

\* Line 146: the comparison of a seen version with the latest one.
isOutdated(version, latestVersion) == version # latestVersion

\* A mutant of pushOnce: the asset is put in front of the list.
pushOnceInFront(list, asset) ==
  IF \E k \in DOMAIN list : SameAsset(list[k], asset)
  THEN list ELSE <<asset>> \o list

\* Lines 147-156: push the asset unless it is in the list already.
pushOnce(list, asset) ==
  IF \E k \in DOMAIN list : SameAsset(list[k], asset)
  THEN list ELSE Append(list, asset)

\* Lines 145-158: the loop over the versions of one asset.
RECURSIVE checkVersions(_, _, _, _)
checkVersions(versions, asset, latestVersion, acc) ==
  IF versions = <<>> THEN acc
  ELSE checkVersions(Tail(versions), asset, latestVersion,
         IF isOutdated(Head(versions), latestVersion)
         THEN pushOnce(acc, asset) ELSE acc)

\* Lines 139-160: the assets to update, in the order of `assets`.
RECURSIVE findAssetsToUpdate(_, _, _, _)
findAssetsToUpdate(as, versions, latest, acc) ==
  IF as = <<>> THEN acc
  ELSE LET key == getKey(Head(as))
       IN findAssetsToUpdate(Tail(as), versions, latest,
            checkVersions(versions[key], Head(as), latest[key], acc))

(***************************************************************************)
(* applyAssetUpdate, lines 553-595: the rewrite of the files.             *)
(***************************************************************************)
\* Lines 561-566: the items of a file that the update is to replace.
isStaleItem(a, assetUpdate) ==
  a.cdn = assetUpdate.cdn /\ a.name = assetUpdate.name
    /\ a.version # assetUpdate.version

\* Lines 569-571: cdnFiles.find by fileName (0: no such file).
findLatestAsset(cdnFiles, fileName) ==
  FirstIndex(cdnFiles, LAMBDA f : f.fileName = fileName)

\* Lines 573-579: the URL, then the integrity hash if the item had one.
replaceItem(content, item, latestAsset) ==
  LET withUrl == replace(content, item.url, latestAsset.url)
  IN IF item.integrity # Null
     THEN replace(withUrl, Sri(item.integrity),
                  Sri(IF latestAsset.integrity = Null THEN ""
                      ELSE latestAsset.integrity))
     ELSE withUrl

\* Lines 581-583.
nextLowest(lowestVersion, version) ==
  IF StrLess(lowestVersion, version) THEN version ELSE lowestVersion

\* Lines 568-585: st = [content, dirty, lowestVersion, replaced].
\* `replaced` lists the items replaced (a record of the run, not a value
\* of the code).
RECURSIVE patchItems(_, _, _)
patchItems(items, cdnFiles, st) ==
  IF items = <<>> THEN st
  ELSE LET it == Head(items)
           k == findLatestAsset(cdnFiles, it.fileName)
       IN patchItems(Tail(items), cdnFiles,
            IF k # 0 /\ includes(st.content, it.url)
            THEN [content |-> replaceItem(st.content, it, cdnFiles[k]),
                  dirty |-> TRUE,
                  lowestVersion |-> nextLowest(st.lowestVersion, it.version),
                  replaced |-> Append(st.replaced, it)]
            ELSE st)

RECURSIVE staleItems(_, _)
staleItems(items, assetUpdate) ==
  IF items = <<>> THEN <<>>
  ELSE (IF isStaleItem(Head(items), assetUpdate) THEN <<Head(items)>> ELSE <<>>)
         \o staleItems(Tail(items), assetUpdate)

\* Lines 557-591: acc = [disk, filesUpdated, lowestVersion, written,
\* replaced]; disk maps each path to its text, `written` lists the files
\* written.
RECURSIVE patchFiles(_, _, _, _)
patchFiles(fam, assetUpdate, cdnFiles, acc) ==
  IF fam = <<>> THEN acc
  ELSE LET file == Head(fam).file
           st == patchItems(staleItems(Head(fam).items, assetUpdate), cdnFiles,
                   [content |-> acc.disk[file], dirty |-> FALSE,
                    lowestVersion |-> acc.lowestVersion,
                    replaced |-> acc.replaced])
       IN patchFiles(Tail(fam), assetUpdate, cdnFiles,
            IF st.dirty
            THEN [disk |-> [acc.disk EXCEPT ![file] = st.content],
                  filesUpdated |-> acc.filesUpdated + 1,
                  lowestVersion |-> st.lowestVersion,
                  written |-> Append(acc.written, file),
                  replaced |-> st.replaced]
            ELSE acc)

\* Lines 606-607 (the default prefix; toLowerCase on the name).
toLowerCase(name) ==
  CASE name = "A" -> "a" [] name = "B" -> "b" [] OTHER -> name

branchName(assetUpdate) ==
  <<"update-static-assets", toLowerCase(assetUpdate.name), assetUpdate.version>>

(***************************************************************************)
(* The state of a run.                                                     *)
(***************************************************************************)
VARIABLES
  options,              \* UpdateOptions: dryRun, repo, labels, commitMessage
  markup,               \* path -> the elements the DOM finds in the file
  disk,                 \* path -> text of the file in the working tree
  pc,                   \* the place of the run in tryUpdateAssets
  fileAssetMap,         \* line 78
  assets,               \* line 89
  assetVersions,        \* line 104
  assetLatestVersions,  \* line 126
  assetsToUpdate,       \* line 139
  cursor,               \* index of the for loop the run is in
  baseBranch,           \* line 170
  latestFiles,          \* line 176
  flow,                 \* the locals of applyAssetUpdate for this asset
  result,               \* UpdateResult.updates
  gitHead,              \* the branch checked out in the working tree
  refs,                 \* local branch -> its commit (0: an older commit)
  commits,              \* the commits of the repository, by number
  remoteRefs,           \* the remote-tracking branches remotes/origin/*
  pulls,                \* the pull requests of the service
  events,               \* what the run did, in order: [asset, op]
  returned,             \* each return of applyAssetUpdate: [asset, headBranch,
                        \* filesUpdated]
  faultsLeft,           \* environment faults that may still happen
  error,                \* the operation whose error ended the run
  call                  \* a call of a static or pure method, outside a run

vars ==
  <<options, markup, disk, pc, fileAssetMap, assets, assetVersions,
    assetLatestVersions, assetsToUpdate, cursor, baseBranch, latestFiles,
    flow, result, gitHead, refs, commits, remoteRefs, pulls, events,
    returned, faultsLeft, error, call>>

NoBranch == <<>>
MainBranch == <<"main">>
\* No commit message yet.
NoMessage == [text |-> "", generated |-> <<>>]
NoFlow ==
  [filesUpdated |-> 0, lowestVersion |-> V0_0_0, branch |-> NoBranch,
   written |-> <<>>, replaced |-> <<>>, created |-> FALSE,
   commitMessage |-> NoMessage]
NoAsset == [cdn |-> "", name |-> ""]
NoError == [asset |-> NoAsset, op |-> "none"]

(***************************************************************************)
(* The inputs of a run.                                                    *)
(***************************************************************************)
Elements(cdns, names, versions, fileNames, hashes, literals) ==
  {[item |-> Item(c, n, v, f, h), literal |-> l] :
     c \in cdns, n \in names, v \in versions, f \in fileNames,
     h \in hashes, l \in literals}

SeqsUpTo(S, n) == UNION {[1..k -> S] : k \in 0..n}

\* The elements of the two files: at most n in all.
Markups(E, n) ==
  {[p \in Range(Paths) |-> IF p = PathX THEN m[1] ELSE m[2]] :
     m \in {mm \in SeqsUpTo(E, n) \X SeqsUpTo(E, n) :
              Len(mm[1]) + Len(mm[2]) <= n}}

Options(dryRuns, repos, labels, messages) ==
  {[dryRun |-> d, repo |-> r, labels |-> l, commitMessage |-> m] :
     d \in dryRuns, r \in repos, l \in labels, m \in messages}

\* No call of a method outside the run.
NoCall ==
  [fn |-> "none", args |-> <<>>, parts |-> <<>>, done |-> TRUE,
   result |-> <<>>]

\* The state of an updater that is at `at`.
InitRun(M, O, F, at) ==
  /\ markup \in M
  /\ options \in O
  /\ faultsLeft \in F
  /\ disk = [p \in Range(Paths) |-> FileText(markup[p])]
  /\ pc = at
  /\ fileAssetMap = <<>>
  /\ assets = <<>>
  /\ assetVersions = <<>>
  /\ assetLatestVersions = <<>>
  /\ assetsToUpdate = <<>>
  /\ cursor = 0
  /\ baseBranch = NoBranch
  /\ latestFiles = <<>>
  /\ flow = NoFlow
  /\ result = <<>>
  /\ gitHead = MainBranch
  /\ refs = [b \in {MainBranch} |-> 1]
  /\ commits = <<[parent |-> 0, tree |-> disk, branch |-> MainBranch,
                   asset |-> Undefined, message |-> NoMessage]>>
  /\ remoteRefs = {}
  /\ pulls = <<>>
  /\ events = <<>>
  /\ returned = <<>>
  /\ error = NoError

InitWith(M, O, F) == InitRun(M, O, F, "findAssets") /\ call = NoCall

(***************************************************************************)
(* The environment.                                                        *)
(***************************************************************************)
\* CdnClient.getLatestVersion: a version, or null.
LatestAnswers == Versions \cup {Undefined}

\* CdnClient.getFiles: the files of the package at that version.
Listing(asset, version, fileNames, integrity) ==
  [k \in DOMAIN fileNames |->
     CdnFile(Url(asset.cdn, asset.name, version, fileNames[k]),
             fileNames[k], integrity)]

FullListing(asset, version) ==
  Listing(asset, version, <<"f.js", "g.js">>, NewHash)

\* Listings that lack files or hashes.
OddListings(asset, version) ==
  {<<>>,
   Listing(asset, version, <<"g.js">>, NewHash),
   Listing(asset, version, <<"f.js", "g.js">>, Null)}

Event(asset, op) == [asset |-> asset, op |-> op]

Log(asset, ops) == [k \in DOMAIN ops |-> Event(asset, ops[k])]

\* The commands run, the last of which exits with an error or writes to
\* stderr.
Failing(asset, ops) == Log(asset, Append(ops, "git failed"))

\* git checkout <branch> with a clean or compatible working tree.
CheckedOut(branch) ==
  IF branch \notin DOMAIN refs \/ refs[branch] = 0 THEN [head |-> gitHead, tree |-> disk]
  ELSE IF commits[refs[branch]].tree = commits[refs[gitHead]].tree
       THEN [head |-> branch, tree |-> disk]
  ELSE IF disk = commits[refs[gitHead]].tree
       THEN [head |-> branch, tree |-> commits[refs[branch]].tree]
  ELSE [head |-> gitHead, tree |-> disk]

(***************************************************************************)
(* tryUpdateAssets.                                                        *)
(***************************************************************************)
\* Lines 81-86: only the files with assets get an entry.
RECURSIVE scanFiles(_)
scanFiles(paths) ==
  IF paths = <<>> THEN <<>>
  ELSE LET found == findAssets(markup[Head(paths)])
       IN (IF Len(found) > 0
           THEN <<[file |-> Head(paths), items |-> found]>> ELSE <<>>)
            \o scanFiles(Tail(paths))

FindAssets ==
  /\ pc = "findAssets"
  /\ fileAssetMap' = scanFiles(Paths)
  /\ pc' = "collect"
  /\ UNCHANGED <<call, options, markup, disk, assets, assetVersions,
                 assetLatestVersions, assetsToUpdate, cursor, baseBranch,
                 latestFiles, flow, result, gitHead, refs, commits,
                 remoteRefs, pulls, events, returned, faultsLeft, error>>

\* Lines 88-123.
CollectAssets ==
  /\ pc = "collect"
  /\ LET items == AllItems(fileAssetMap)
         found == uniqueAssets(items, <<>>)
         keys == {getKey(found[k]) : k \in DOMAIN found}
     IN /\ assets' = found
        /\ assetVersions' = [key \in keys |-> versionsOf(items, key, <<>>)]
        /\ assetLatestVersions' = [key \in keys |-> Undefined]
        /\ pc' = IF found = <<>> THEN "reconcile" ELSE "resolve"
  /\ cursor' = 1
  /\ UNCHANGED <<call, options, markup, disk, fileAssetMap, assetsToUpdate,
                 baseBranch, latestFiles, flow, result, gitHead, refs,
                 commits, remoteRefs, pulls, events, returned, faultsLeft,
                 error>>

\* Lines 131-134: only a version that is not null is stored.
storeLatest(map, key, version) ==
  IF version # Undefined THEN [map EXCEPT ![key] = version] ELSE map

\* Lines 127-136, one asset: the lookup answers, or throws.
ResolveLatest ==
  /\ pc = "resolve"
  /\ LET asset == assets[cursor]
     IN \/ /\ \E version \in LatestAnswers :
                assetLatestVersions' =
                  storeLatest(assetLatestVersions, getKey(asset), version)
           /\ events' = Append(events, Event(asset, "getLatestVersion"))
           /\ cursor' = cursor + 1
           /\ pc' = IF cursor = Len(assets) THEN "reconcile" ELSE "resolve"
           /\ UNCHANGED <<faultsLeft, error>>
        \/ /\ faultsLeft > 0
           /\ faultsLeft' = faultsLeft - 1
           /\ events' = events \o
                Log(asset, <<"getLatestVersion", "lookup failed">>)
           /\ error' = Event(asset, "getLatestVersion")
           /\ pc' = "failed"
           /\ UNCHANGED <<assetLatestVersions, cursor>>
  /\ UNCHANGED <<call, options, markup, disk, fileAssetMap, assets, assetVersions,
                 assetsToUpdate, baseBranch, latestFiles, flow, result,
                 gitHead, refs, commits, remoteRefs, pulls, returned>>

\* Lines 138-168.
Reconcile ==
  /\ pc = "reconcile"
  /\ assetsToUpdate' =
       findAssetsToUpdate(assets, assetVersions, assetLatestVersions, <<>>)
  /\ cursor' = 1
  /\ pc' = IF Len(assetsToUpdate') > 0 THEN "getFiles" ELSE "done"
  /\ UNCHANGED <<call, options, markup, disk, fileAssetMap, assets, assetVersions,
                 assetLatestVersions, baseBranch, latestFiles, flow, result,
                 gitHead, refs, commits, remoteRefs, pulls, events, returned,
                 faultsLeft, error>>

\* The asset of this turn of the loop of line 171, with its version.
CurrentAsset == assetsToUpdate[cursor]

updatedAsset ==
  [cdn |-> CurrentAsset.cdn, name |-> CurrentAsset.name,
   version |-> assetLatestVersions[getKey(CurrentAsset)]]

\* The loop of line 171 goes to its next asset, or ends (line 220).
NextAsset ==
  /\ cursor' = cursor + 1
  /\ pc' = IF cursor = Len(assetsToUpdate) THEN "done" ELSE "getFiles"

\* A mutant of hasHeadBranch: the result of applyAssetUpdate is not tested.
hasHeadBranchAlways(headBranch) == TRUE

\* Line 198: a pull request is created only for a head branch.
hasHeadBranch(headBranch) == headBranch # NoBranch

\* applyAssetUpdate returns to line 191.
Return(headBranch, filesUpdated) ==
  /\ returned' = Append(returned,
                        [asset |-> CurrentAsset, headBranch |-> headBranch,
                         filesUpdated |-> filesUpdated])
  /\ IF hasHeadBranch(headBranch)
     THEN pc' = "pullRequest" /\ cursor' = cursor
     ELSE NextAsset

\* Lines 172-177.
GetFiles ==
  /\ pc = "getFiles"
  /\ \E files \in {FullListing(CurrentAsset, updatedAsset.version)}
                  \cup OddListings(CurrentAsset, updatedAsset.version) :
       /\ files # FullListing(CurrentAsset, updatedAsset.version)
            => faultsLeft > 0
       /\ faultsLeft' =
            IF files = FullListing(CurrentAsset, updatedAsset.version)
            THEN faultsLeft ELSE faultsLeft - 1
       /\ latestFiles' = files
       /\ IF Len(files) > 0
          THEN pc' = "selectBase" /\ cursor' = cursor
          ELSE NextAsset
  /\ events' = Append(events, Event(CurrentAsset, "getFiles"))
  /\ UNCHANGED <<call, options, markup, disk, fileAssetMap, assets, assetVersions,
                 assetLatestVersions, assetsToUpdate, baseBranch, flow,
                 result, gitHead, refs, commits, remoteRefs, pulls, returned,
                 error>>

\* Lines 184-189.
SelectBase ==
  /\ pc = "selectBase"
  /\ \/ /\ baseBranch # NoBranch
        /\ gitHead' = CheckedOut(baseBranch).head
        /\ disk' = CheckedOut(baseBranch).tree
        /\ events' = Append(events, Event(CurrentAsset, "checkout"))
        /\ pc' = "applyFiles"
        /\ UNCHANGED <<baseBranch, faultsLeft, error>>
     \/ /\ baseBranch = NoBranch
        /\ baseBranch' = gitHead
        /\ events' = Append(events, Event(CurrentAsset, "rev-parse HEAD"))
        /\ pc' = "applyFiles"
        /\ UNCHANGED <<gitHead, disk, faultsLeft, error>>
     \/ /\ baseBranch = NoBranch
        /\ faultsLeft > 0
        /\ faultsLeft' = faultsLeft - 1
        /\ events' = events \o Failing(CurrentAsset, <<"rev-parse HEAD">>)
        /\ error' = Event(CurrentAsset, "rev-parse HEAD")
        /\ pc' = "failed"
        /\ UNCHANGED <<baseBranch, gitHead, disk>>
  /\ flow' = NoFlow
  /\ UNCHANGED <<call, options, markup, fileAssetMap, assets, assetVersions,
                 assetLatestVersions, assetsToUpdate, cursor, latestFiles,
                 result, refs, commits, remoteRefs, pulls, returned>>

(***************************************************************************)
(* applyAssetUpdate.                                                       *)
(***************************************************************************)
\* A mutant of nothingUpdated: the test is off by one.
nothingUpdatedBelowZero(filesUpdated) == filesUpdated < 0

\* Line 593.
nothingUpdated(filesUpdated) == filesUpdated < 1

\* Lines 551-597: the files are rewritten; null if none was.
ApplyFiles ==
  /\ pc = "applyFiles"
  /\ LET r == patchFiles(fileAssetMap, updatedAsset, latestFiles,
                 [disk |-> disk, filesUpdated |-> 0,
                  lowestVersion |-> V0_0_0, written |-> <<>>,
                  replaced |-> <<>>])
     IN /\ disk' = r.disk
        /\ flow' = [filesUpdated |-> r.filesUpdated,
                    lowestVersion |-> r.lowestVersion,
                    branch |-> NoBranch, written |-> r.written,
                    replaced |-> r.replaced, created |-> FALSE,
                    commitMessage |-> NoMessage]
        /\ events' = events \o
             Log(CurrentAsset, [k \in DOMAIN r.written |-> "writeFile"])
        /\ IF nothingUpdated(r.filesUpdated)
           THEN Return(NoBranch, r.filesUpdated)
           ELSE /\ pc' = "configure"
                /\ UNCHANGED <<returned, cursor>>
  /\ UNCHANGED <<call, options, markup, fileAssetMap, assets, assetVersions,
                 assetLatestVersions, assetsToUpdate, baseBranch,
                 latestFiles, result, gitHead, refs, commits, remoteRefs,
                 pulls, faultsLeft, error>>

\* Lines 619-637: the git commands before the branch is looked up. The
\* user name and e-mail are set; origin is set and fetched with a repo.
configOps ==
  <<"config user.name", "config user.email">>
    \o (IF options.repo # "" THEN <<"remote set-url", "fetch">> ELSE <<>>)

\* A mutant of tolerant: every command is run with ignoreErrors.
tolerantAlways(op) == TRUE

\* execGit(args, ignoreErrors), lines 522-530: only a call that does not
\* ignore errors throws.
tolerant(op) == op \in {"fetch", "rev-parse --verify", "checkout -b", "push", "checkout"}

\* A mutant of branchExists: the output of rev-parse is not looked at.
branchExistsNever(branch, remote) == FALSE

\* Line 649.
branchExists(branch, remote) == branch \in remote

\* Line 611.
generatesMessage(opts) == opts.commitMessage = ""

\* Lines 609-617: the message of the options, or the generated one with
\* the version it was generated from.
commitMessageOf(opts, assetUpdate, lowestVersion) ==
  IF generatesMessage(opts)
  THEN [text |-> "",
        generated |->
          <<[currentAssetVersion |-> lowestVersion,
             message |-> generateCommitMessage(assetUpdate.name, lowestVersion,
                                               assetUpdate.version)]>>]
  ELSE [text |-> opts.commitMessage, generated |-> <<>>]

\* Line 51: split is called on the latest version, which is undefined for
\* an asset without an entry in assetLatestVersions (a TypeError).
messageThrows(opts, assetUpdate) ==
  generatesMessage(opts) /\ assetUpdate.version = Undefined

\* Lines 600-652: the message cannot be generated, or a command fails, or
\* the remote branch exists (null), or the update goes on.
ConfigureGit ==
  /\ pc = "configure"
  /\ LET branch == branchName(updatedAsset)
     IN \/ /\ messageThrows(options, updatedAsset)
           /\ error' = Event(CurrentAsset, "generateCommitMessage")
           /\ pc' = "failed"
           /\ UNCHANGED <<flow, remoteRefs, returned, cursor, events,
                          faultsLeft>>
        \/ \E k \in DOMAIN configOps :
             /\ ~messageThrows(options, updatedAsset)
             /\ ~tolerant(configOps[k])
             /\ faultsLeft > 0
             /\ faultsLeft' = faultsLeft - 1
             /\ events' = events \o Failing(CurrentAsset, SubSeq(configOps, 1, k))
             /\ error' = Event(CurrentAsset, configOps[k])
             /\ pc' = "failed"
             /\ UNCHANGED <<flow, remoteRefs, returned, cursor>>
        \/ \E remote \in {remoteRefs, remoteRefs \cup {branch}} :
             /\ ~messageThrows(options, updatedAsset)
             /\ remote # remoteRefs => faultsLeft > 0
             /\ faultsLeft' =
                  IF remote # remoteRefs THEN faultsLeft - 1 ELSE faultsLeft
             /\ remoteRefs' = remote
             /\ events' = events \o
                  Log(CurrentAsset,
                      Append(configOps, "rev-parse --verify")
                        \o (IF branch \in remote
                            THEN <<"remote branch found">> ELSE <<>>))
             /\ flow' = [flow EXCEPT
                  !.branch = branch,
                  !.commitMessage =
                    commitMessageOf(options, updatedAsset, flow.lowestVersion)]
             /\ IF branchExists(branch, remote)
                THEN Return(NoBranch, flow.filesUpdated)
                ELSE /\ pc' = "commit"
                     /\ UNCHANGED <<returned, cursor>>
             /\ UNCHANGED error
  /\ UNCHANGED <<call, options, markup, disk, fileAssetMap, assets, assetVersions,
                 assetLatestVersions, assetsToUpdate, baseBranch,
                 latestFiles, result, gitHead, refs, commits, pulls>>

\* Lines 654-666: checkout -b (its failure is ignored), add, commit, log.
\* locals = the local branches, one of which may be found to exist.
CommitBranch ==
  /\ pc = "commit"
  /\ \E known \in {refs, IF flow.branch \in DOMAIN refs THEN refs
                          ELSE [b \in DOMAIN refs \cup {flow.branch} |->
                                  IF b = flow.branch THEN 0 ELSE refs[b]]} :
       LET exists == flow.branch \in DOMAIN known
           head == IF exists THEN gitHead ELSE flow.branch
           made == IF exists THEN known
                   ELSE [b \in DOMAIN known \cup {flow.branch} |->
                           IF b = flow.branch THEN known[gitHead] ELSE known[b]]
           commit == [parent |-> made[head], tree |-> disk, branch |-> head,
                      asset |-> CurrentAsset, message |-> flow.commitMessage]
           clean == disk = commits[made[head]].tree
           spent == IF known # refs THEN 1 ELSE 0
       IN /\ spent <= faultsLeft
          /\ gitHead' = head
          /\ flow' = [flow EXCEPT !.created = ~exists]
          /\ \/ /\ ~clean
                /\ commits' = Append(commits, commit)
                /\ refs' = [made EXCEPT ![head] = Len(commits) + 1]
                /\ events' = events \o
                     Log(CurrentAsset, <<"checkout -b", "add", "commit", "log">>)
                /\ faultsLeft' = faultsLeft - spent
                /\ pc' = "push"
                /\ UNCHANGED error
             \/ /\ clean
                /\ commits' = commits
                /\ refs' = made
                /\ events' = events \o
                     Failing(CurrentAsset, <<"checkout -b", "add", "commit">>)
                /\ faultsLeft' = faultsLeft - spent
                /\ error' = Event(CurrentAsset, "commit")
                /\ pc' = "failed"
             \/ \E op \in {"add", "commit"} :
                  /\ ~tolerant(op)
                  /\ spent < faultsLeft
                  /\ faultsLeft' = faultsLeft - spent - 1
                  /\ commits' = commits
                  /\ refs' = made
                  /\ events' = events \o
                       Failing(CurrentAsset,
                           IF op = "add" THEN <<"checkout -b", "add">>
                           ELSE <<"checkout -b", "add", "commit">>)
                  /\ error' = Event(CurrentAsset, op)
                  /\ pc' = "failed"
             \/ /\ ~clean
                /\ spent < faultsLeft
                /\ faultsLeft' = faultsLeft - spent - 1
                /\ commits' = Append(commits, commit)
                /\ refs' = [made EXCEPT ![head] = Len(commits) + 1]
                /\ events' = events \o
                     Failing(CurrentAsset,
                             <<"checkout -b", "add", "commit", "log">>)
                /\ IF tolerant("log")
                   THEN pc' = "push" /\ UNCHANGED error
                   ELSE error' = Event(CurrentAsset, "log") /\ pc' = "failed"
  /\ UNCHANGED <<call, options, markup, disk, fileAssetMap, assets, assetVersions,
                 assetLatestVersions, assetsToUpdate, cursor, baseBranch,
                 latestFiles, result, remoteRefs, pulls, returned>>

\* Mutants of shouldPush: the dry-run flag is not read; nothing is pushed.
shouldPushInDryRun(opts) == opts.repo # ""

shouldPushNever(opts) == FALSE

\* Line 668.
shouldPush(opts) == ~opts.dryRun /\ opts.repo # ""

\* Lines 668-673: the push, whose failure is ignored; the branch is returned.
Push ==
  /\ pc = "push"
  /\ IF shouldPush(options)
     THEN /\ events' = Append(events, Event(CurrentAsset, "push"))
          /\ \/ /\ remoteRefs' = remoteRefs \cup {flow.branch}
                /\ UNCHANGED faultsLeft
             \/ /\ faultsLeft > 0
                /\ faultsLeft' = faultsLeft - 1
                /\ UNCHANGED remoteRefs
     ELSE UNCHANGED <<events, remoteRefs, faultsLeft>>
  /\ Return(flow.branch, flow.filesUpdated)
  /\ UNCHANGED <<call, options, markup, disk, fileAssetMap, assets, assetVersions,
                 assetLatestVersions, assetsToUpdate, baseBranch,
                 latestFiles, flow, result, gitHead, refs, commits, pulls,
                 error>>

(***************************************************************************)
(* createPullRequest, and lines 198-214 of tryUpdateAssets.               *)
(***************************************************************************)
PullUrl(number) == <<"pull", number>>

\* Lines 456-459.
placeholder == [number |-> 0, url |-> <<>>]

\* Line 452.
skipsPullRequest(opts) == opts.dryRun

\* Line 476.
appliesLabels(opts) == opts.labels # ""

\* A mutant of catches: the try of line 480 is left out.
catchesNothing(op) == FALSE

\* Lines 480-492: the error of the add-labels call is caught and logged.
catches(op) == op = "addLabels"

\* Lines 205-213.
AssetUpdate(asset, pullRequest, version) ==
  [cdn |-> asset.cdn, name |-> asset.name,
   pullRequestNumber |-> pullRequest.number,
   pullRequestUrl |-> pullRequest.url, version |-> version]

CreatePullRequest ==
  /\ pc = "pullRequest"
  /\ LET head == returned[Len(returned)].headBranch
         number == Len(pulls) + 1
         created == [number |-> number, url |-> PullUrl(number)]
     IN IF skipsPullRequest(options)
        THEN /\ result' = Append(result,
                    AssetUpdate(CurrentAsset, placeholder, updatedAsset.version))
             /\ NextAsset
             /\ UNCHANGED <<pulls, events, faultsLeft, error>>
        ELSE \/ /\ pulls' = Append(pulls,
                        [number |-> number, head |-> head, base |-> baseBranch,
                         asset |-> CurrentAsset,
                         version |-> updatedAsset.version])
                /\ result' = Append(result,
                       AssetUpdate(CurrentAsset, created, updatedAsset.version))
                /\ NextAsset
                /\ events' = events \o Log(CurrentAsset,
                       IF appliesLabels(options)
                       THEN <<"pulls.create", "addLabels">>
                       ELSE <<"pulls.create">>)
                /\ UNCHANGED <<faultsLeft, error>>
             \/ /\ appliesLabels(options)
                /\ faultsLeft > 0
                /\ faultsLeft' = faultsLeft - 1
                /\ pulls' = Append(pulls,
                        [number |-> number, head |-> head, base |-> baseBranch,
                         asset |-> CurrentAsset,
                         version |-> updatedAsset.version])
                /\ events' = events \o Log(CurrentAsset,
                       <<"pulls.create", "addLabels", "addLabels failed">>)
                /\ IF catches("addLabels")
                   THEN /\ result' = Append(result,
                               AssetUpdate(CurrentAsset, created,
                                           updatedAsset.version))
                        /\ NextAsset
                        /\ UNCHANGED error
                   ELSE /\ error' = Event(CurrentAsset, "addLabels")
                        /\ pc' = "failed"
                        /\ UNCHANGED <<result, cursor>>
             \/ /\ faultsLeft > 0
                /\ faultsLeft' = faultsLeft - 1
                /\ events' = Append(events, Event(CurrentAsset, "pulls.create"))
                /\ error' = Event(CurrentAsset, "pulls.create")
                /\ pc' = "failed"
                /\ UNCHANGED <<pulls, result, cursor>>
  /\ UNCHANGED <<call, options, markup, disk, fileAssetMap, assets, assetVersions,
                 assetLatestVersions, assetsToUpdate, baseBranch,
                 latestFiles, flow, gitHead, refs, commits, remoteRefs,
                 returned>>

(***************************************************************************)
(* Calls of the static and pure methods, outside a run.                   *)
(***************************************************************************)
run ==
  <<options, markup, disk, pc, fileAssetMap, assets, assetVersions,
    assetLatestVersions, assetsToUpdate, cursor, baseBranch, latestFiles,
    flow, result, gitHead, refs, commits, remoteRefs, pulls, events,
    returned, faultsLeft, error>>

DigitChars == <<"0", "1", "2", "3", "4", "5", "6", "7", "8", "9">>

\* The decimal numeral of n < 100.
numeral(n) ==
  IF n < 10 THEN <<DigitChars[n + 1]>>
  ELSE <<DigitChars[(n \div 10) + 1], DigitChars[(n % 10) + 1]>>

Dotted(parts) ==
  numeral(parts[1]) \o <<".">> \o numeral(parts[2]) \o <<".">>
    \o numeral(parts[3])

PartValues == (0..MaxPart) \cup {9, 10}

\* Versions major.minor.patch, with the numbers they were written from,
\* and versions of another form.
MessageVersions ==
  {[text |-> Dotted(<<a, b, c>>), parts |-> <<a, b, c>>] :
     a \in PartValues, b \in PartValues, c \in {0, 3, 4}}
    \cup {[text |-> <<"1">>, parts |-> <<>>],
          [text |-> <<"1", ".", "x">>, parts |-> <<>>]}

MessageCalls ==
  {[fn |-> "generateCommitMessage", args |-> <<"a", old.text, new.text>>,
    parts |-> <<old.parts, new.parts>>, done |-> FALSE, result |-> <<>>] :
     old \in MessageVersions, new \in MessageVersions}

\* Path segments: empty, a word, name@version, @scope, two "@".
PathSegments ==
  {<<>>, <<"w">>, <<"a", "@", "1.9.0">>, <<"@", "a">>,
   <<"a", "@", "1", "@", "2">>}

Origins == DOMAIN cdnMap \cup {"https://example.com"}

\* The URLs with one to MaxSegments path segments, with the segments
\* their path was written from.
AssetCalls ==
  {[fn |-> "tryGetAsset",
    args |-> <<[origin |-> o, path |-> join(segments, "/")], integrity>>,
    parts |-> segments, done |-> FALSE, result |-> <<>>] :
     o \in Origins, integrity \in {Null} \cup OldHashes,
     segments \in SeqsUpTo(PathSegments, MaxSegments) \ {<<>>}}

TryGetAsset ==
  /\ call.fn = "tryGetAsset"
  /\ ~call.done
  /\ call' = [call EXCEPT
                !.done = TRUE,
                !.result = tryGetAsset(call.args[1], call.args[2])]
  /\ UNCHANGED run

GenerateCommitMessage ==
  /\ call.fn = "generateCommitMessage"
  /\ ~call.done
  /\ call' = [call EXCEPT
                !.done = TRUE,
                !.result = <<generateCommitMessage(call.args[1], call.args[2],
                                                   call.args[3])>>]
  /\ UNCHANGED run

Next ==
  \/ FindAssets
  \/ CollectAssets
  \/ ResolveLatest
  \/ Reconcile
  \/ GetFiles
  \/ SelectBase
  \/ ApplyFiles
  \/ ConfigureGit
  \/ CommitBranch
  \/ Push
  \/ CreatePullRequest

(***************************************************************************)
(* Specifications.                                                         *)
(***************************************************************************)
\* Every option; a dry run returns at line 452, before the labels are read.
AllOptions ==
  Options({TRUE}, {"", "owner/repo"}, {""}, {""})
    \cup Options({FALSE}, {"", "owner/repo"}, {"", "dependencies"}, {""})
    \cup Options({FALSE}, {"owner/repo"}, {""}, {"Update assets"})

DefaultOptions == Options({FALSE}, {"owner/repo"}, {"dependencies"}, {""})

\* The environment in breadth: every option, faults, two packages.
EnvElements == Elements({"cdnjs"}, Names, {V1_9_0}, {"f.js"}, {Null}, {TRUE})

Init == InitWith(Markups(EnvElements, MaxEnvOcc), AllOptions, {MaxFaults})

Spec == Init /\ [][Next]_vars

\* The markup in breadth: three packages, no fault.
FileElements ==
  Elements({"cdnjs"}, Names, {V1_9_0}, {"f.js"}, {Null}, {TRUE})
    \cup Elements({"jsdelivr"}, {"a"}, {V1_9_0}, {"f.js"}, {Null}, {TRUE})

InitFiles == InitWith(Markups(FileElements, MaxOcc), DefaultOptions, {0})

SpecFiles == InitFiles /\ [][Next]_vars

\* The rewrite in breadth: one package, with and without integrity hashes.
PatchElements ==
  Elements({"cdnjs"}, {"a"}, Versions, {"f.js"}, {Null} \cup OldHashes, {TRUE})

InitPatch == InitWith(Markups(PatchElements, MaxOcc), DefaultOptions, {0})

SpecPatch == InitPatch /\ [][Next]_vars

\* The rewrite of single occurrences in breadth: a file the listing lacks
\* (h.js), a URL that is spelled otherwise in the text, a second package.
FrameElements ==
  Elements({"cdnjs"}, {"a"}, {V1_9_0}, {"f.js", "h.js"}, {Null} \cup OldHashes,
           BOOLEAN)
    \cup Elements({"cdnjs"}, {"b"}, {V1_9_0}, {"f.js"}, {Null}, {TRUE})

InitFrame ==
  InitWith(Markups(FrameElements, MaxEnvOcc), DefaultOptions, {MaxFaults})

SpecFrame == InitFrame /\ [][Next]_vars

\* The static and pure methods on their own, on every input of a set.
NoMarkup == {[p \in Range(Paths) |-> <<>>]}

InitCalls ==
  /\ InitRun(NoMarkup, DefaultOptions, {0}, "idle")
  /\ (call \in MessageCalls \/ call \in AssetCalls)

NextCalls ==
  \/ GenerateCommitMessage
  \/ TryGetAsset

SpecCalls == InitCalls /\ [][NextCalls]_vars

(***************************************************************************)
(* What the claims speak of.                                               *)
(***************************************************************************)
\* The elements of the scanned files, as [path, index, item].
Occurrences ==
  UNION {{[path |-> p, index |-> k, item |-> markup[p][k].item] :
            k \in DOMAIN markup[p]} : p \in Range(Paths)}

SeenAssets == {AssetOf(o.item) : o \in Occurrences}

SeenVersions(a) == {o.item.version : o \in {x \in Occurrences : AssetOf(x.item) = a}}

Has(a, op) == \E k \in DOMAIN events : events[k] = Event(a, op)

\* Every op2 of the asset comes after an op1 of the asset.
Precedes(a, op1, op2) ==
  \A j \in DOMAIN events :
    events[j] = Event(a, op2) => \E k \in 1..(j - 1) : events[k] = Event(a, op1)

CountIn(seq, ok(_)) == Cardinality({k \in DOMAIN seq : ok(seq[k])})

PositionIn(seq, a) == FirstIndex(seq, LAMBDA x : SameAsset(x, a))

\* The lookup of the asset returned (a version or null).
Resolved(a) ==
  /\ Has(a, "getLatestVersion")
  /\ error # Event(a, "getLatestVersion")

\* Lines 139-160 are done.
Reconciled == pc \in {"getFiles", "selectBase", "applyFiles", "configure",
                      "commit", "push", "pullRequest", "done"}
                \/ (pc = "failed" /\ error.op # "getLatestVersion")

\* The git commands of lines 654-669 and the calls of createPullRequest.
PublishOps == {"checkout -b", "add", "commit", "log", "push",
               "pulls.create", "addLabels"}

\* Nothing of a branch, a commit, a push or a pull request for the asset.
NothingPublished(a) ==
  /\ \A op \in PublishOps : ~Has(a, op)
  /\ \A k \in DOMAIN commits : commits[k].asset # a
  /\ \A k \in DOMAIN pulls : pulls[k].asset # a
  /\ \A k \in DOMAIN result : ~SameAsset(result[k], a)

\* The run has left the asset behind without an error.
WentOn(a) ==
  /\ error.asset # a
  /\ PositionIn(assetsToUpdate, a) < cursor

\* No lookup of the run returned null.
NoNullLookup ==
  \A k \in DOMAIN assets :
    Resolved(assets[k]) => assetLatestVersions[getKey(assets[k])] # Undefined

ReturnedHead(a) ==
  \E k \in DOMAIN returned :
    returned[k].asset = a /\ returned[k].headBranch # NoBranch

(***************************************************************************)
(* C1: an asset whose getLatestVersion call returned null is excluded     *)
(* from the update: it is not in assetsToUpdate, getFiles is not called   *)
(* for it, no file is written, no git command is run and no pull request  *)
(* is created for it.                                                      *)
(***************************************************************************)
C1_NullLatestExcluded ==
  \A a \in SeenAssets :
    (Reconciled /\ Resolved(a) /\ assetLatestVersions[getKey(a)] = Undefined)
      => /\ \A k \in DOMAIN assetsToUpdate : ~SameAsset(assetsToUpdate[k], a)
         /\ \A k \in DOMAIN events :
              events[k].asset = a => events[k].op = "getLatestVersion"
         /\ NothingPublished(a)

(***************************************************************************)
(* C2: after the reconciliation an asset is in assetsToUpdate if and only *)
(* if a version seen of it in a scanned file differs from its resolved    *)
(* latest version, and it is there exactly once.                           *)
(***************************************************************************)
C2_ToUpdateIffOutdated ==
  Reconciled =>
    \A a \in SeenAssets :
      CountIn(assetsToUpdate, LAMBDA x : SameAsset(x, a)) =
        IF /\ assetLatestVersions[getKey(a)] # Undefined
           /\ \E v \in SeenVersions(a) : v # assetLatestVersions[getKey(a)]
        THEN 1 ELSE 0

(***************************************************************************)
(* C3: an occurrence whose version is the resolved latest version of its  *)
(* asset is never rewritten: its URL and its integrity text in the file   *)
(* stay what they were before the run.                                     *)
(***************************************************************************)
\* Where the text of an element starts in the text of its file.
OffsetOf(p, k) == Len(FileText(SubSeq(markup[p], 1, k - 1)))

TextOf(content, p, k) ==
  SubSeq(content, OffsetOf(p, k) + 1,
         OffsetOf(p, k) + Len(ElementText(markup[p][k])))

C3_CurrentNeverRewritten ==
  \A o \in Occurrences :
    (Reconciled /\ assetLatestVersions[getKey(o.item)] = o.item.version)
      => TextOf(disk[o.path], o.path, o.index)
           = ElementText(markup[o.path][o.index])

(***************************************************************************)
(* C4: when applyAssetUpdate writes no file for an asset, nothing of a    *)
(* branch, a commit, a push or a pull request is made for the asset, and  *)
(* applyAssetUpdate returns null without an error: the run goes on with   *)
(* the next asset.                                                         *)
(***************************************************************************)
C4_NoFileNoBranch ==
  /\ \A a \in SeenAssets :
       ~Has(a, "writeFile")
         => /\ NothingPublished(a)
            /\ ~Has(a, "config user.name") /\ ~Has(a, "rev-parse --verify")
  /\ \A k \in DOMAIN returned :
       returned[k].filesUpdated = 0
         => /\ returned[k].headBranch = NoBranch
            /\ ~Has(returned[k].asset, "writeFile")
            /\ WentOn(returned[k].asset)

\* An update wrote no file, and the next asset got its pull request.
C4_Witness ==
  /\ pc = "done"
  /\ Len(returned) = 2
  /\ returned[1].filesUpdated = 0
  /\ Len(pulls) = 1
  /\ pulls[1].asset = returned[2].asset

(***************************************************************************)
(* C5: when the remote-tracking branch of the asset exists already,       *)
(* applyAssetUpdate returns null: no checkout -b, add, commit or push is  *)
(* run and no pull request is created for the asset, without an error.    *)
(***************************************************************************)
C5_BranchExistsAborts ==
  \A a \in SeenAssets :
    Has(a, "remote branch found")
      => /\ NothingPublished(a)
         /\ \E k \in DOMAIN returned :
              returned[k].asset = a /\ returned[k].headBranch = NoBranch
         /\ WentOn(a)

\* The branch of the first asset existed, and the second asset got its
\* pull request.
C5_Witness ==
  /\ pc = "done"
  /\ Len(returned) = 2
  /\ Has(returned[1].asset, "remote branch found")
  /\ Len(pulls) = 1
  /\ pulls[1].asset = returned[2].asset

(***************************************************************************)
(* C6: in a dry run the files are rewritten, the head branch is checked   *)
(* out and the commit is made for a stale asset as without it, but git    *)
(* push is never run and the pull request and label calls are never made; *)
(* the pull request recorded for the asset has number 0 and no url.       *)
(***************************************************************************)
C6_DryRun ==
  options.dryRun =>
    /\ \A k \in DOMAIN events :
         events[k].op \notin {"push", "pulls.create", "addLabels"}
    /\ pulls = <<>>
    /\ \A k \in DOMAIN result :
         result[k].pullRequestNumber = 0 /\ result[k].pullRequestUrl = <<>>
    /\ \A k \in DOMAIN returned :
         returned[k].headBranch # NoBranch
           => LET a == returned[k].asset
              IN /\ Has(a, "writeFile") /\ Has(a, "checkout -b")
                 /\ Has(a, "commit")
                 /\ \E c \in DOMAIN commits :
                      /\ commits[c].asset = a
                      /\ commits[c].tree # commits[commits[c].parent].tree
                 /\ (pc = "done" => \E r \in DOMAIN result :
                                      SameAsset(result[r], a))

\* A dry run that committed the updates of two assets.
C6_Witness ==
  /\ options.dryRun
  /\ pc = "done"
  /\ Len(result) = 2
  /\ Len(commits) = 3

PullsFor(a) == CountIn(pulls, LAMBDA x : x.asset = a)

UpdatesFor(a) == CountIn(result, LAMBDA x : SameAsset(x, a))

(***************************************************************************)
(* C7 as claimed: a run creates exactly one pull request for each asset   *)
(* whose update returned a head branch and none for another asset, and    *)
(* UpdateResult.updates holds exactly one AssetUpdate per pull request    *)
(* created.  (Stated of the runs in which every lookup gave a version.)    *)
(***************************************************************************)
C7_OnePullRequestPerHead ==
  (pc = "done" /\ NoNullLookup) =>
    /\ \A a \in SeenAssets : PullsFor(a) = IF ReturnedHead(a) THEN 1 ELSE 0
    /\ Len(result) = Len(pulls)

(***************************************************************************)
(* C7 as amended: no asset gets more than one pull request, and only an   *)
(* asset whose update returned a head branch in a run that is not a dry   *)
(* run gets one.  When the run returns, updates holds exactly one         *)
(* AssetUpdate for each asset whose update returned a head branch and     *)
(* none for another; without dry run each of them is the pull request     *)
(* created for the asset, in a dry run each is the placeholder and no     *)
(* pull request is created.                                                *)
(***************************************************************************)
C7_OneUpdatePerHead ==
  /\ \A a \in SeenAssets :
       /\ PullsFor(a) <= 1 /\ UpdatesFor(a) <= 1
       /\ PullsFor(a) = 1 => ReturnedHead(a) /\ ~options.dryRun
       /\ UpdatesFor(a) = 1 => ReturnedHead(a)
       /\ pc = "done" =>
            /\ UpdatesFor(a) = IF ReturnedHead(a) THEN 1 ELSE 0
            /\ PullsFor(a) = IF ReturnedHead(a) /\ ~options.dryRun THEN 1 ELSE 0
  /\ \A k \in DOMAIN pulls : ~SameAsset(pulls[k].asset, NoAsset) => pulls[k].asset \in SeenAssets
  /\ \A k \in DOMAIN result :
       IF options.dryRun
       THEN result[k].pullRequestNumber = 0
       ELSE /\ result[k].pullRequestNumber \in DOMAIN pulls
            /\ SameAsset(pulls[result[k].pullRequestNumber].asset, result[k])
            /\ result[k].pullRequestUrl = PullUrl(result[k].pullRequestNumber)

\* A run that is not a dry run and created the pull requests of two assets.
C7_Witness ==
  /\ pc = "done"
  /\ ~options.dryRun
  /\ Len(pulls) = 2
  /\ Len(result) = 2
  /\ pulls[1].asset # pulls[2].asset

(***************************************************************************)
(* C8: every update branch of a run starts from the same base: a commit   *)
(* made on a head branch has for parent the commit the base branch was at *)
(* when the run processed its first asset.  (Stated of the runs in which  *)
(* every lookup gave a version.)                                           *)
(***************************************************************************)
C8_SameBase ==
  NoNullLookup =>
    \A k \in DOMAIN commits :
      (k > 1 /\ commits[k].branch # MainBranch) => commits[k].parent = 1

(***************************************************************************)
(* C9: the stale assets are processed, and their pull requests created    *)
(* and recorded in updates, in the order in which each asset is first     *)
(* seen, the files taken in file order and the occurrences of a file in   *)
(* extraction order.                                                       *)
(***************************************************************************)
PathIndex(p) == FirstIndex(Paths, LAMBDA x : x = p)

\* The place of an occurrence in the scan: files first, then elements.
PlaceOf(o) == PathIndex(o.path) * (MaxOcc + 1) + o.index

\* The place of the first occurrence of each asset.
FirstSeen ==
  [a \in SeenAssets |->
     MinOf({PlaceOf(o) : o \in {x \in Occurrences : AssetOf(x.item) = a}})]

C9_FirstSeenOrder ==
  LET seen == FirstSeen
      steps == SelectSeq(events, LAMBDA e : e.op # "getLatestVersion")
  IN /\ \A k \in 1..(Len(assetsToUpdate) - 1) :
          seen[assetsToUpdate[k]] < seen[assetsToUpdate[k + 1]]
     /\ \A k \in 1..(Len(steps) - 1) :
          \/ steps[k].asset = steps[k + 1].asset
          \/ seen[steps[k].asset] < seen[steps[k + 1].asset]
     /\ \A k \in 1..(Len(pulls) - 1) :
          seen[pulls[k].asset] < seen[pulls[k + 1].asset]
     /\ \A k \in 1..(Len(result) - 1) :
          seen[Asset(result[k].cdn, result[k].name)]
            < seen[Asset(result[k + 1].cdn, result[k + 1].name)]
     /\ pc = "done" =>
          \A k \in DOMAIN assetsToUpdate : Has(assetsToUpdate[k], "getFiles")

\* Three assets, the first seen of them in the second file alone, each
\* with its pull request.
C9_Witness ==
  /\ pc = "done"
  /\ Len(pulls) = 3
  /\ Len(markup[PathX]) = 0

(***************************************************************************)
(* C10 as claimed: a pull request is created for an asset only after its  *)
(* head branch was created and committed, and, when the run is not a dry  *)
(* run, pushed.  (Stated of the runs in which every lookup gave a         *)
(* version.)                                                               *)
(***************************************************************************)
C10_PushedBeforePullRequest ==
  \A a \in SeenAssets :
    (NoNullLookup /\ Has(a, "pulls.create"))
      => /\ Precedes(a, "checkout -b", "pulls.create")
         /\ Precedes(a, "commit", "pulls.create")
         /\ ~options.dryRun => Precedes(a, "push", "pulls.create")

(***************************************************************************)
(* C10 as amended: the create-pull-request call is made for an asset only *)
(* after its files were written, git checkout -b, add and commit were run *)
(* for it in this order and the commit was made, and, when the run is not *)
(* a dry run and a repository is configured, after git push was run (its  *)
(* failure is ignored); without a repository no push comes before the     *)
(* call.  In a dry run the call is not made, and the placeholder is       *)
(* recorded after the same steps without the push.                         *)
(***************************************************************************)
CommittedInOrder(a) ==
  /\ Has(a, "writeFile") /\ Has(a, "checkout -b") /\ Has(a, "commit")
  /\ Precedes(a, "writeFile", "checkout -b")
  /\ Precedes(a, "checkout -b", "add")
  /\ Precedes(a, "add", "commit")
  /\ \E c \in DOMAIN commits : c > 1 /\ commits[c].asset = a

C10_StepsBeforePullRequest ==
  \A a \in SeenAssets :
    /\ (Has(a, "pulls.create") \/ UpdatesFor(a) > 0 \/ PullsFor(a) > 0)
         => CommittedInOrder(a)
    /\ Has(a, "pulls.create")
         => /\ ~options.dryRun
            /\ Precedes(a, "commit", "pulls.create")
            /\ IF options.repo # ""
               THEN Has(a, "push") /\ Precedes(a, "commit", "push")
                      /\ Precedes(a, "push", "pulls.create")
               ELSE ~Has(a, "push")
    /\ (options.dryRun /\ UpdatesFor(a) > 0) => ~Has(a, "push")

\* A pull request created after the push of its branch.
C10_Witness ==
  /\ pc = "done"
  /\ ~options.dryRun
  /\ options.repo # ""
  /\ Len(pulls) = 1
  /\ Has(pulls[1].asset, "push")
  /\ pulls[1].head \in remoteRefs

(***************************************************************************)
(* C11: when the add-labels call fails for a pull request that was        *)
(* created, the error is swallowed: the pull request stands, the          *)
(* AssetUpdate of the asset is in the result with the number and the url  *)
(* of that pull request, and the run has gone on to the assets after it.  *)
(***************************************************************************)
LabelsFailed(a) == Has(a, "addLabels failed")

C11_LabelFailureSwallowed ==
  \A a \in SeenAssets :
    LabelsFailed(a) =>
      /\ error.op # "addLabels"
      /\ \E k \in DOMAIN pulls :
           /\ pulls[k].asset = a
           /\ \E j \in DOMAIN result :
                /\ SameAsset(result[j], a)
                /\ result[j].pullRequestNumber = pulls[k].number
                /\ result[j].pullRequestUrl = PullUrl(pulls[k].number)
      /\ UpdatesFor(a) = 1
      /\ PositionIn(assetsToUpdate, a) < cursor
      /\ pc = "done" =>
           \A k \in DOMAIN assetsToUpdate : Has(assetsToUpdate[k], "getFiles")

\* The labels failed for the first asset, the second got its pull request.
C11_Witness ==
  /\ pc = "done"
  /\ Len(assetsToUpdate) = 2
  /\ LabelsFailed(assetsToUpdate[1])
  /\ PullsFor(assetsToUpdate[2]) = 1
  /\ Len(result) = 2
  /\ result[1].pullRequestNumber = 1

(***************************************************************************)
(* C12: when a git command that is run without ignoreErrors (config,      *)
(* remote set-url, add, commit, log, rev-parse of HEAD) fails during the  *)
(* update of an asset, the error is raised: the command is run once, no   *)
(* later git command is run and no pull request is created for that asset.*)
(***************************************************************************)
FatalOps == {"config user.name", "config user.email", "remote set-url",
             "add", "commit", "log", "rev-parse HEAD"}

C12_GitFailureEndsAsset ==
  \A k \in DOMAIN events :
    events[k].op = "git failed" =>
      LET a == events[k].asset
      IN /\ k > 1
         /\ events[k - 1].asset = a
         /\ events[k - 1].op \in FatalOps
         /\ pc = "failed"
         /\ error = events[k - 1]
         /\ \A j \in DOMAIN events : j > k => events[j].asset # a
         /\ \A j \in 1..(k - 2) :
              events[j] = events[k - 1] => events[j].op \notin {"add", "commit", "log"}
         /\ \A j \in DOMAIN pulls : pulls[j].asset # a
         /\ \A j \in DOMAIN result : ~SameAsset(result[j], a)

\* git add fails for the second asset, after the first got its pull request.
C12_Witness ==
  /\ Len(assetsToUpdate) = 2
  /\ error = Event(assetsToUpdate[2], "add")
  /\ events[Len(events)].op = "git failed"
  /\ PullsFor(assetsToUpdate[1]) = 1

(***************************************************************************)
(* C13: a getLatestVersion call that raises an error does not abort the   *)
(* run: the asset is left out of assetsToUpdate, the lookups of the other *)
(* assets are still made and the run goes on to return its result.        *)
(***************************************************************************)
C13_LookupFailureExcluded ==
  \A k \in DOMAIN events :
    events[k].op = "lookup failed" =>
      LET a == events[k].asset
      IN /\ error # Event(a, "getLatestVersion")
         /\ pc # "failed"
         /\ \A j \in DOMAIN assetsToUpdate : ~SameAsset(assetsToUpdate[j], a)
         /\ Reconciled =>
              \A j \in DOMAIN assets : Has(assets[j], "getLatestVersion")

(***************************************************************************)
(* C14: applyAssetUpdate leaves a file with no replacement untouched: a   *)
(* file whose text does not hold the URL of a stale occurrence of the     *)
(* asset is not written and not counted in filesUpdated; a file with a    *)
(* replacement is written once and counted once.                           *)
(***************************************************************************)
\* The text holds the URL, letter for letter.
Holds(text, url) == \E k \in DOMAIN text : text[k] = url

\* The stale occurrences of the asset of this turn in the file p.
StaleIn(p) ==
  {o \in Occurrences :
     /\ o.path = p
     /\ AssetOf(o.item) = CurrentAsset
     /\ o.item.version # updatedAsset.version}

C14_ZeroReplacementUntouched ==
  [][pc = "applyFiles" =>
       /\ \A p \in Range(Paths) :
            /\ (\A o \in StaleIn(p) : ~Holds(disk[p], o.item.url))
                 => /\ disk'[p] = disk[p]
                    /\ p \notin Range(flow'.written)
            /\ disk'[p] # disk[p]
                 => Cardinality({k \in DOMAIN flow'.written :
                                   flow'.written[k] = p}) = 1
            /\ p \in Range(flow'.written) => disk'[p] # disk[p]
       /\ flow'.filesUpdated = Len(flow'.written)
       /\ Len(events') = Len(events) + Len(flow'.written)]_vars

\* x.html holds a stale occurrence under another spelling and is left as
\* it was, y.html is written.
C14_Witness ==
  /\ pc = "configure"
  /\ flow.written = <<PathY>>
  /\ flow.filesUpdated = 1
  /\ \E k \in DOMAIN markup[PathX] :
       /\ AssetOf(markup[PathX][k].item) = CurrentAsset
       /\ ~markup[PathX][k].literal
  /\ disk[PathX] = FileText(markup[PathX])

(***************************************************************************)
(* C15: generateCommitMessage(name, old, new) takes the update type from  *)
(* the first of the major and minor numbers in which old and new differ:  *)
(* major if the major numbers differ, else minor if the minor numbers     *)
(* differ, else patch; (1.2.3, 1.3.0) is minor, (1.2.3, 2.0.0) is major   *)
(* and (1.2.3, 1.2.4) is patch.                                            *)
(***************************************************************************)
KindByFirstDifference(old, new) ==
  IF old[1] # new[1] THEN "major"
  ELSE IF old[2] # new[2] THEN "minor" ELSE "patch"

C15_KindByFirstDifference ==
  (call.fn = "generateCommitMessage" /\ call.done
     /\ call.parts[1] # <<>> /\ call.parts[2] # <<>>)
    => call.result[1].updateType
         = KindByFirstDifference(call.parts[1], call.parts[2])

(***************************************************************************)
(* C16: the extractor discards the URLs it cannot take apart: a URL that  *)
(* starts with no CDN prefix gives no asset, a cdnjs URL with fewer than  *)
(* four path segments gives no asset, and a jsdelivr URL gives an asset   *)
(* only if its second path segment holds exactly one "@", and then what   *)
(* is before the "@" is the name and what is after it is the version.     *)
(***************************************************************************)
\* The places of "@" in a segment.
AtSigns(segment) == {k \in DOMAIN segment : segment[k] = "@"}

C16_ExtractorDiscards ==
  (call.fn = "tryGetAsset" /\ call.done) =>
    LET url == call.args[1]
        segments == call.parts
    IN /\ url.origin = "https://example.com" => call.result = <<>>
       /\ (url.origin = "https://cdnjs.cloudflare.com" /\ Len(segments) < 4)
            => call.result = <<>>
       /\ (url.origin = "https://cdn.jsdelivr.net" /\ call.result # <<>>)
            => /\ Len(segments) >= 2
               /\ Cardinality(AtSigns(segments[2])) = 1
               /\ LET k == CHOOSE k \in AtSigns(segments[2]) : TRUE
                  IN /\ call.result[1].name = SubSeq(segments[2], 1, k - 1)
                     /\ call.result[1].version
                          = SubSeq(segments[2], k + 1, Len(segments[2]))

\* A jsdelivr URL whose second segment holds two "@" was discarded.
C16_Witness ==
  /\ call.fn = "tryGetAsset"
  /\ call.done
  /\ call.args[1].origin = "https://cdn.jsdelivr.net"
  /\ Len(call.parts) = 3
  /\ Cardinality(AtSigns(call.parts[2])) = 2
  /\ call.result = <<>>

(***************************************************************************)
(* C17: for every stale occurrence of the asset whose fileName is in the  *)
(* new listing and whose URL is in the text of the file, applyAssetUpdate *)
(* puts the URL of that CdnFile in the place of the old URL and, if the   *)
(* occurrence had an integrity hash, the integrity of the CdnFile (the    *)
(* empty string if it has none) in the place of that hash; an occurrence  *)
(* whose fileName is not in the listing is skipped alone: its text stays  *)
(* and the other occurrences are still replaced.  (Stated of the updates *)
(* to a version that the lookup gave, and of the occurrences that are     *)
(* written in the text letter for letter.)                                 *)
(***************************************************************************)
\* The places of the listing with this file name.
ListedAt(fileName) ==
  {j \in DOMAIN latestFiles : latestFiles[j].fileName = fileName}

C17_OccurrenceReplaced ==
  [][(pc = "applyFiles" /\ updatedAsset.version # Undefined) =>
       \A p \in Range(Paths) : \A o \in StaleIn(p) :
         LET el == markup[p][o.index]
             before == TextOf(disk[p], p, o.index)
             after == TextOf(disk'[p], p, o.index)
         IN IF ListedAt(o.item.fileName) = {}
            THEN after = before
            ELSE LET new == latestFiles[MinOf(ListedAt(o.item.fileName))]
                 IN (el.literal /\ before = ElementText(el)) =>
                      /\ after[1] = new.url
                      /\ o.item.integrity # Null =>
                           after[2] = Sri(IF new.integrity = Null THEN ""
                                          ELSE new.integrity)]_vars

(***************************************************************************)
(* C18: the old version that applyAssetUpdate passes to                    *)
(* generateCommitMessage is the lowest, as strings compare, of the         *)
(* versions of the stale occurrences that it replaced for the asset.       *)
(***************************************************************************)
\* The versions of the occurrences replaced in this call.
ReplacedVersions == {flow.replaced[k].version : k \in DOMAIN flow.replaced}

\* The least of a set of strings.
LeastString(S) == CHOOSE v \in S : \A w \in S : ~StrLess(w, v)

\* The message of this call was generated.
MessageGenerated ==
  pc \in {"commit", "push"} /\ flow.commitMessage.generated # <<>>

C18_LowestVersionPassed ==
  MessageGenerated =>
    flow.commitMessage.generated[1].currentAssetVersion
      = LeastString(ReplacedVersions)

(***************************************************************************)
(* C19: the commit made for an asset contains only the file edits made    *)
(* for that asset: the edits written to the working tree for an earlier   *)
(* asset of the run, whose flow ended without a commit because its remote *)
(* branch exists, are never staged into the commit of a later asset.      *)
(***************************************************************************)
\* The places of a file whose text differs between a tree and its parent.
Edited(tree, parent, p) == {i \in DOMAIN tree[p] : tree[p][i] # parent[p][i]}

\* The text replaced was an integrity hash, or a URL of this asset.
EditOf(token, asset) ==
  token.kind = "sri" \/ (token.cdn = asset.cdn /\ token.name = asset.name)

C19_CommitOnlyOwnEdits ==
  \A c \in 2..Len(commits) :
    LET parent == commits[commits[c].parent].tree
    IN \A p \in Range(Paths) :
         \A i \in Edited(commits[c].tree, parent, p) :
           EditOf(parent[p][i], commits[c].asset)

(***************************************************************************)
(* C20: every commit of a run is made on the head branch computed for its *)
(* asset, never on the base branch: when add and commit run for an asset  *)
(* the branch checked out is the head branch of that asset, also when     *)
(* checkout -b failed because a local branch of that name exists.         *)
(***************************************************************************)
\* The head branch of lines 606-607 for an asset of the run.
HeadBranchOf(asset) ==
  branchName([cdn |-> asset.cdn, name |-> asset.name,
              version |-> assetLatestVersions[getKey(asset)]])

C20_CommitOnHeadBranch ==
  \A c \in 2..Len(commits) :
    /\ commits[c].branch = HeadBranchOf(commits[c].asset)
    /\ commits[c].branch # baseBranch

(***************************************************************************)
(* C21: within one run, two distinct stale assets (another cdn or another *)
(* name) never get the same head branch name, so that the branch-exists   *)
(* check or the branch created for one asset never suppresses or captures *)
(* the update of another asset.                                            *)
(***************************************************************************)
C21_DistinctHeadBranches ==
  \A i \in DOMAIN assetsToUpdate : \A j \in DOMAIN assetsToUpdate :
    assetsToUpdate[i] # assetsToUpdate[j] =>
      HeadBranchOf(assetsToUpdate[i]) # HeadBranchOf(assetsToUpdate[j])

====
